---------------------------- MODULE Spec2Model ----------------------------
(***************************************************************************)
(* A model of sk_dsp_comm/synchronization.py: the n-bit NCO, the           *)
(* accumulator and loop filters, the cbb_pll / cbb_afc loops, the control  *)
(* flow of NDA_symb_sync, DD_carrier_sync, and PLL1 / PLL_cbb.             *)
(*                                                                         *)
(* Numbers.  The NCO words are up to 32 bits wide and the sums formed by   *)
(* NCO.update pass 2^32, which is more than a TLC integer holds.  A word   *)
(* or an integer-valued float is therefore written as a pair <<hi, lo>>    *)
(* standing for hi * 2^16 + lo with lo in 0 .. 2^16 - 1 (hi may be         *)
(* negative).  Reals are exact rationals <<num, den>>: every float the     *)
(* model forms is a dyadic rational or an integer below 2^53, which        *)
(* float64 holds exactly.                                                  *)
(***************************************************************************)
EXTENDS Integers, Sequences, FiniteSets, TLC

VARIABLES
    nco_pc,     \* "none": no NCO yet; "ok": constructed; "raised": __init__ raised
    nco,        \* the NCO object's attributes
    hist,       \* history of the calls made on the NCO since construction
    lf,         \* a LoopFilter2 object and the inputs it has been given
    lp,         \* a run of cbb_pll or cbb_afc
    nda,        \* a run of NDA_symb_sync
    dd,         \* a run of DD_carrier_sync
    pll         \* a run of PLL1 or PLL_cbb

vars == <<nco_pc, nco, hist, lf, lp, nda, dd, pll>>

-----------------------------------------------------------------------------
(* Two-limb integers *)

Base == 2^16

WNorm(hi, lo) == <<hi + (lo \div Base), lo % Base>>

WInt(i) == WNorm(0, i)

WAdd(a, b) == WNorm(a[1] + b[1], a[2] + b[2])

WNeg(a) == WNorm(-a[1], -a[2])

WSub(a, b) == WAdd(a, WNeg(b))

\* c * a for a small integer c (|c| < 2^14)
WMulSmall(c, a) == WNorm(c * a[1], c * a[2])

\* c * 2^n for a small integer c
WScalePow2(c, n) == IF n < 16 THEN WNorm(0, c * 2^n) ELSE <<c * 2^(n - 16), 0>>

WLess(a, b) == a[1] < b[1] \/ (a[1] = b[1] /\ a[2] < b[2])

WLeq(a, b) == a = b \/ WLess(a, b)

WZero == <<0, 0>>

WAbs(a) == IF WLess(a, WZero) THEN WNeg(a) ELSE a

\* floor(a / c) and a mod c for an integer c in 1 .. 2^14
WFloorDiv(a, c) == <<a[1] \div c, ((a[1] % c) * Base + a[2]) \div c>>

WRem(a, c) == ((a[1] % c) * Base + a[2]) % c

\* a mod 2^w
WModPow2(a, w) == IF w >= 16 THEN <<a[1] % 2^(w - 16), a[2]>> ELSE <<0, a[2] % 2^w>>

-----------------------------------------------------------------------------
(* numpy conversions *)

\* np.rint(a / c): nearest integer, a tie to the even neighbour
Rint(a, c) ==
    LET q == WFloorDiv(a, c)
        r == WRem(a, c)
    IN  IF 2 * r < c THEN q
        ELSE IF 2 * r > c THEN WAdd(q, WInt(1))
        ELSE IF q[2] % 2 = 0 THEN q ELSE WAdd(q, WInt(1))

\* the integer part of a / c, toward zero (a C cast of a double drops the fraction)
Trunc(a, c) == IF WLess(a, WZero) THEN WNeg(WFloorDiv(WNeg(a), c)) ELSE WFloorDiv(a, c)

\* The dtype the constructor picks for n_bits (its width in bits).
DtypeBits(nb) == IF nb <= 8 THEN 8 ELSE IF nb <= 16 THEN 16 ELSE IF nb <= 32 THEN 32 ELSE 64

DtypeMax(w) == WSub(WScalePow2(1, w), WInt(1))

InDtype(w, t) == WLeq(WZero, t) /\ WLeq(t, DtypeMax(w))

\* self.dtype(x) for an integer-valued float x = t.  numpy converts with a C
\* cast.  When t fits the unsigned type the result is t.  When it does not, the
\* C conversion is undefined: builds that convert through a wider integer and
\* keep the low bits (x86-64) give t mod 2^w, builds whose conversion
\* instruction saturates (AArch64 fcvtzu) give 0 or 2^w - 1.
DtypeCast(w, t) ==
    IF InDtype(w, t) THEN {t}
    ELSE {WModPow2(t, w), IF WLess(t, WZero) THEN WZero ELSE DtypeMax(w)}

-----------------------------------------------------------------------------
(* Bounds and the inputs drawn for the NCO *)

\* calls (update, set_fcenter) made on one NCO
MaxCalls == 3

\* n_bits handed to the constructor: the native widths 8, 16 and 32, a width
\* between two of them, and widths past 64.  (Widths 33 .. 64 select uint64,
\* whose values the two-limb integers do not hold; they are not drawn.)
NBitsSet == {8, 12, 16, 32, 65, 72}

\* sample rates
FsSet == {1, 3}

\* center frequencies f = num/den with 0 <= f < fs: a coarse grid, and the
\* frequency one part in 1024 below fs
FreqSet(fsx) == {<<j, 4>> : j \in {1, 2 * fsx + 1, 4 * fsx - 1}} \cup {<<1023 * fsx, 1024>>}

\* gains kc
KcSet == {1, 2}

\* initial accumulator states that fit the dtype picked for n_bits = nb
StateInitSet(nb) ==
    IF nb > 32 THEN {WZero, WInt(200)}
    ELSE {WZero, WInt(200), WSub(DtypeMax(DtypeBits(nb)), WInt(9))}

\* error inputs e = num/den: zero, 1/512 (half a step of an 8-bit word, a tie
\* for the rounding), -1/256 and a quarter of full scale downward
ErrSet == {<<0, 1>>, <<1, 512>>, <<-1, 256>>, <<-1, 4>>}

\* thresholds handed to pos_edge; None stands for a call without one
None == <<-1, -1>>

ThreshSet == {None, WZero, WInt(3)}

-----------------------------------------------------------------------------
(* class NCO *)

\* __max_bits_const__: 2 ** n_bits
MaxBitsConst(nb) == WScalePow2(1, nb)

NoNCO ==
    [n_bits |-> 0, dtype |-> 0, fcenter_hat |-> [num |-> WZero, den |-> 1, exp |-> 0],
     fs |-> 0, delta_k |-> WZero, kc |-> 0, k_hat |-> WZero, k_old |-> WZero]

NoHist == [init |-> WZero, n |-> 0, zero |-> TRUE, retuned |-> FALSE,
           last |-> "none", e |-> <<0, 1>>, f |-> <<0, 1>>, calls |-> 0, req_bits |-> 0]

\* The frequency word of __init__: dtype(np.rint(fcenter * 2^n_bits) / fs).
\* The rounding is applied to fcenter * 2^n_bits; the quotient by fs is
\* then cut to its integer part by the cast.
InitDeltaK(f, fsx, nb) ==
    LET R == Rint(WScalePow2(f[1], nb), f[2])
    IN  DtypeCast(DtypeBits(nb), Trunc(R, fsx))

\* The frequency word of set_fcenter: dtype(np.rint(fcenter_new * 2^n_bits / fs)).
SetDeltaK(f, fsx, nb) ==
    DtypeCast(DtypeBits(nb), Rint(WScalePow2(f[1], nb), f[2] * fsx))

\* The attributes __init__ assigns, when the cast of the frequency word gives dk
NCONew(fcenter, fsx, kcx, state_init_k, nb, dk) ==
    [n_bits |-> nb, dtype |-> DtypeBits(nb),
     fcenter_hat |-> [num |-> WInt(fcenter[1]), den |-> fcenter[2], exp |-> 0],
     fs |-> fsx, delta_k |-> dk, kc |-> kcx,
     k_hat |-> state_init_k, k_old |-> WZero]

\* The assignments of __init__ once the dtype is chosen, for width nb; req is
\* the n_bits the caller asked for.
NCOBuild(fcenter, fsx, kcx, state_init_k, nb, req) ==
    \E dk \in InitDeltaK(fcenter, fsx, nb) :
        /\ nco_pc' = "ok"
        /\ nco' = NCONew(fcenter, fsx, kcx, state_init_k, nb, dk)
        /\ hist' = [NoHist EXCEPT !.init = state_init_k, !.last = "init", !.f = fcenter,
                                  !.req_bits = req]

\* (mutant) a width past 64 is silently built as a 32-bit oscillator
NCOInitNarrows(fcenter, fsx, kcx, state_init_k, nb) ==
    /\ nco_pc = "none"
    /\ NCOBuild(fcenter, fsx, kcx, state_init_k, IF nb > 64 THEN 32 ELSE nb, nb)

\* NCO.__init__(fcenter, fs, kc, state_init_k, n_bits)
NCOInit(fcenter, fsx, kcx, state_init_k, nb) ==
    /\ nco_pc = "none"
    /\ IF nb > 64
       THEN \* raise NotImplementedError: no object is returned
            /\ nco_pc' = "raised"
            /\ hist' = [NoHist EXCEPT !.req_bits = nb]
            /\ UNCHANGED nco
       ELSE NCOBuild(fcenter, fsx, kcx, state_init_k, nb, nb)

\* The float handed to the cast in update:
\* np.rint(float(k_hat) + float(delta_k) + float(kc * 2^n_bits * e_in))
UpdateSum(o, e) ==
    Rint(WAdd(WMulSmall(e[2], WAdd(o.k_hat, o.delta_k)),
              WScalePow2(o.kc * e[1], o.n_bits)),
         e[2])

\* The attributes after update(e_in) when the cast gives kh
UpdateResult(o, kh) == [o EXCEPT !.k_old = o.k_hat, !.k_hat = kh]

\* NCO.update(e_in)
NCOUpdate(e) ==
    /\ nco_pc = "ok"
    /\ hist.calls < MaxCalls
    /\ \E kh \in DtypeCast(nco.dtype, UpdateSum(nco, e)) :
           nco' = UpdateResult(nco, kh)
    /\ hist' = [hist EXCEPT !.n = @ + 1, !.zero = @ /\ e[1] = 0, !.last = "update",
                            !.e = e, !.calls = @ + 1]
    /\ UNCHANGED nco_pc

\* (mutant) the retune also clears the phase accumulator
SetFcenterResetsPhase(o, dk) ==
    [o EXCEPT !.delta_k = dk, !.k_hat = WZero,
              !.fcenter_hat = [num |-> WMulSmall(o.fs, dk), den |-> 1, exp |-> o.n_bits]]

\* The attributes after set_fcenter(fcenter_new) when the cast gives dk:
\* fcenter_hat = delta_k / 2^n_bits * fs
SetFcenterResult(o, dk) ==
    [o EXCEPT !.delta_k = dk,
              !.fcenter_hat = [num |-> WMulSmall(o.fs, dk), den |-> 1, exp |-> o.n_bits]]

\* NCO.set_fcenter(fcenter_new)
NCOSetFcenter(f) ==
    /\ nco_pc = "ok"
    /\ hist.calls < MaxCalls
    /\ \E dk \in SetDeltaK(f, nco.fs, nco.n_bits) :
           nco' = SetFcenterResult(nco, dk)
    /\ hist' = [hist EXCEPT !.retuned = TRUE, !.last = "set_fcenter", !.f = f,
                            !.calls = @ + 1]
    /\ UNCHANGED nco_pc

\* NCO.out_square(): +1 in the first half of the cycle, -1 in the second
OutSquare(o) == IF WLeq(WZero, o.k_hat) /\ WLess(o.k_hat, MaxBitsConst(o.n_bits - 1)) THEN 1 ELSE -1

\* The threshold pos_edge compares with: "thresh if thresh else dtype(2^n_bits >> 1)".
\* None and 0 are both false in Python.
EdgeThresh(o, thresh) ==
    IF thresh = None \/ thresh = WZero THEN MaxBitsConst(o.n_bits - 1) ELSE thresh

\* NCO.pos_edge(thresh): float(k_old) - float(k_hat) > thresh
PosEdge(o, thresh) == WLess(EdgeThresh(o, thresh), WSub(o.k_old, o.k_hat))

-----------------------------------------------------------------------------
(* class Accumulator, LoopFilter1, LoopFilter2 *)

\* samples given to one filter, or processed by one loop run
MaxSamples == 3

\* filter gains, initial accumulator states and inputs (exact reals; integers here)
GainSet == {-1, 2, 3}

AccStateSet == {0, 5}

SampleSet == {-2, 1, 3}

\* Accumulator.__init__(state)
AccumNew(state) == [m_state |-> state]

\* (mutant) the accumulator keeps the input instead of adding it
AccumOverwrite(a, x_in) == [m_state |-> x_in]

\* Accumulator.update(x_in): m_state += x_in
AccumUpdate(a, x_in) == [m_state |-> a.m_state + x_in]

\* Accumulator.out()
AccumOut(a) == a.m_state

\* LoopFilter1.__init__(alpha2, state)
LoopFilter1New(alpha2, state) == [accum |-> AccumNew(state), alpha2 |-> alpha2]

\* LoopFilter1.filter(x): the filter after the call and the value returned
LoopFilter1Filter(f, x) ==
    LET acc == AccumUpdate(f.accum, x)
    IN  [f |-> [f EXCEPT !.accum = acc], y |-> f.alpha2 * AccumOut(acc)]

\* LoopFilter2.__init__(alpha1, alpha2, state)
LoopFilter2New(alpha1, alpha2, state) ==
    [accum |-> AccumNew(state), alpha1 |-> alpha1, alpha2 |-> alpha2]

\* LoopFilter2.filter(x): the filter after the call and the value returned
LoopFilter2Filter(f, x) ==
    LET acc == AccumUpdate(f.accum, x)
    IN  [f |-> [f EXCEPT !.accum = acc], y |-> f.alpha1 * x + f.alpha2 * AccumOut(acc)]

NoLF == [made |-> FALSE, f |-> LoopFilter2New(0, 0, 0), s0 |-> 0, xs |-> <<>>, y |-> 0]

\* pll_lf = LoopFilter2(alpha1, alpha2, state)
LFInit(alpha1, alpha2, state) ==
    /\ ~lf.made
    /\ lf' = [made |-> TRUE, f |-> LoopFilter2New(alpha1, alpha2, state), s0 |-> state,
              xs |-> <<>>, y |-> 0]

\* y = pll_lf.filter(x)
LFFilter(x) ==
    /\ lf.made
    /\ Len(lf.xs) < MaxSamples
    /\ LET r == LoopFilter2Filter(lf.f, x)
       IN  lf' = [lf EXCEPT !.f = r.f, !.xs = Append(@, x), !.y = r.y]

-----------------------------------------------------------------------------
(* cbb_pll and cbb_afc *)

\* The reals of a loop run (detector values, filter outputs) are multiples
\* of 1 / LoopDen, held as their numerators.
LoopDen == 2^3

\* The value the detector forms from input sample k.  The input is any
\* complex sequence: for the NCO output u read at sample k, the sample
\* x = j * y * u gives Im(x * conj(u)) = y, so drawing the detector value draws
\* the sample.
DetSet == {-4, 0, 5}

\* detector gains k_d and loop-filter gains (loop_parms2, loop_parms1)
KdSet == {1, 2}

LoopGainSet == {<<2, 1>>, <<1, 3>>}

NoLoop ==
    [pc |-> "idle", kind |-> "pll", open |-> FALSE, N |-> 0, k |-> 0, f_clk |-> 1, k_d |-> 0,
     nco |-> NoNCO, filt |-> LoopFilter2New(0, 0, 0), y_lf_old |-> 0, seen |-> FALSE,
     e_in |-> <<>>, phase |-> <<>>, y_d |-> <<>>, y_lf |-> <<>>]

\* cbb_pll / cbb_afc up to the loop: the 32-bit NCO from state 0 with gain
\* 1.0, the zeroed outputs, the loop filter (order 2 for the PLL, order 1 for
\* the AFC), y_lf_old = 0
LoopStart(kind, N, fc, f_clk, open, k_d, gains) ==
    /\ lp.pc = "idle"
    /\ \E dk \in InitDeltaK(fc, f_clk, 32) :
         lp' = [NoLoop EXCEPT
                  !.pc = "run", !.kind = kind, !.open = open, !.N = N, !.f_clk = f_clk,
                  !.k_d = k_d,
                  !.nco = NCONew(fc, f_clk, 1, WZero, 32, dk),
                  !.filt = IF kind = "pll" THEN LoopFilter2New(gains[1], gains[2], 0)
                           ELSE LoopFilter1New(gains[2], 0)]

\* The argument of the NCO update at the top of the loop body: 0.0 when the
\* loop is open, else y_lf_pll_old (PLL) or y_lf_afc_old / f_clk_afc (AFC)
LoopErr(l) ==
    IF l.open THEN <<0, 1>>
    ELSE IF l.kind = "pll" THEN <<l.y_lf_old, LoopDen>>
    ELSE <<l.y_lf_old, LoopDen * l.f_clk>>

\* The detector value of the loop body for the drawn input value yd.  The PLL
\* records Im(x * conj(x_NCO)).  The AFC hands the mixed sample to the
\* discriminator, whose state is 0 before the first sample: the backward
\* difference is then the sample itself and the value is 0.
LoopDetector(l, yd) == IF l.kind = "afc" /\ ~l.seen THEN 0 ELSE yd

\* The filter call of the loop body: pll_lf.filter(k_d * y_d) or afc_lf.filter(y_d)
LoopFilterCall(l, yd) ==
    IF l.kind = "pll" THEN LoopFilter2Filter(l.filt, l.k_d * yd)
    ELSE LoopFilter1Filter(l.filt, yd)

\* one pass of the body of "for k in range(N)"
LoopStep(yd) ==
    /\ lp.pc = "run"
    /\ lp.k < lp.N
    /\ \E kh \in DtypeCast(lp.nco.dtype, UpdateSum(lp.nco, LoopErr(lp))) :
         LET o == UpdateResult(lp.nco, kh)
             d == LoopDetector(lp, yd)
             r == LoopFilterCall(lp, d)
         IN  lp' = [lp EXCEPT
                      !.nco = o,
                      !.e_in = Append(@, LoopErr(lp)),
                      !.phase = Append(@, o.k_hat),
                      !.y_d = Append(@, d),
                      !.filt = r.f,
                      !.y_lf = Append(@, r.y),
                      !.y_lf_old = r.y,
                      !.seen = TRUE,
                      !.k = @ + 1]

\* the loop is over; the arrays are returned
LoopReturn ==
    /\ lp.pc = "run"
    /\ lp.k = lp.N
    /\ lp' = [lp EXCEPT !.pc = "done"]

-----------------------------------------------------------------------------
(* Exact rationals <<num, den>>, den > 0, in lowest terms *)

RECURSIVE Gcd(_, _)
Gcd(a, b) == IF b = 0 THEN a ELSE Gcd(b, a % b)

IAbs(i) == IF i < 0 THEN -i ELSE i

RNorm(n, d) ==
    LET g == Gcd(IAbs(n), IAbs(d))
        sg == IF d < 0 THEN -1 ELSE 1
    IN  <<sg * (n \div g), sg * (d \div g)>>

RInt(i) == <<i, 1>>

RAdd(a, b) == RNorm(a[1] * b[2] + b[1] * a[2], a[2] * b[2])

RSub(a, b) == RNorm(a[1] * b[2] - b[1] * a[2], a[2] * b[2])

RMul(a, b) == RNorm(a[1] * b[1], a[2] * b[2])

\* a / b for b # 0
RDiv(a, b) == RNorm(a[1] * b[2], a[2] * b[1])

RLess(a, b) == a[1] * b[2] < b[1] * a[2]

\* a float64 quotient by zero: inf or nan, with a warning and no exception
NotFinite == <<0, 0>>

-----------------------------------------------------------------------------
(* NDA_symb_sync *)

\* length of the input z
MaxLen == 11

\* samples per symbol, smoothing half widths, BnTs, zeta and interpolator
\* orders drawn (4 stands for an order that is none of 1, 2, 3)
NsSet == {1, 2, 3}

LSet == {0, 1}

BnTsSet == {<<1, 4>>, <<1, 1>>}

ZetaSet == {<<1, 2>>, <<1, 1>>}

IOrdSet == {1, 2, 3, 4}

\* The smoothed detector output epsilon = -angle(sum(c1_buff) / (2L+1)) / (2 pi)
\* of an event depends on the samples; it is drawn from the values the
\* samples can give it.  With Ns = 1 every c1 is |z|^2 >= 0 and the angle is
\* 0.  With Ns = 2 the terms are real up to the rounding of exp(-j pi): the
\* angle is 0 or (to within 2e-16) -pi.  Otherwise it is any angle in
\* (-pi, pi]; a few are drawn.
EpsSet(Ns) ==
    IF Ns = 1 THEN {<<0, 1>>}
    ELSE IF Ns = 2 THEN {<<0, 1>>, <<1, 2>>}
    ELSE {<<-1, 2>>, <<-1, 4>>, <<0, 1>>, <<1, 4>>}

\* loop filter parameters: K0 = -1.0, Kp = 1.0,
\* K1 = 4*zeta/(zeta + 1/(4*zeta))*BnTs/Ns/Kp/K0
\* K2 = 4/(zeta + 1/(4*zeta))**2*(BnTs/Ns)**2/Kp/K0
NdaK0 == RInt(-1)

NdaKp == RInt(1)

NdaA(zeta) == RAdd(zeta, RDiv(RInt(1), RMul(RInt(4), zeta)))

NdaK1(zeta, BnTs, Ns) ==
    RDiv(RDiv(RDiv(RMul(RDiv(RMul(RInt(4), zeta), NdaA(zeta)), BnTs), RInt(Ns)), NdaKp), NdaK0)

NdaK2(zeta, BnTs, Ns) ==
    LET r == RDiv(BnTs, RInt(Ns))
    IN  RDiv(RDiv(RMul(RDiv(RInt(4), RMul(NdaA(zeta), NdaA(zeta))), RMul(r, r)), NdaKp), NdaK0)

\* the end of range(1, Ns*int(np.floor(len(z)/float(Ns)-(Ns-1)))), z being the
\* padded input of length N + 1
NdaLoopEnd(N, Ns) == Ns * (((N + 1) \div Ns) - (Ns - 1))

\* n zeros (np.zeros)
Zeros(n) == [i \in 1 .. n |-> 0]

\* The indices z[c+2 : c-2 : -1] yields on an array of length len: a start
\* past the end is clamped to len - 1, and a stop of -1 (c = 1) means the last
\* element, which leaves nothing.
SliceWindow(c, len) ==
    IF c - 2 < 0 THEN {}
    ELSE {i \in 0 .. len - 1 : c - 2 < i /\ i <= c + 2}

\* Whether the interpolation centred on z[c] finds its samples in the padded
\* input of length len.  Order 1 indexes z[c] and z[c-1] (IndexError past the
\* end).  Orders 2 and 3 multiply the slice z[c+2 : c-2 : -1] by four
\* coefficients (ValueError unless the slice has four elements) and index z[c].
\* Any other order leaves the interpolant unassigned (NameError when it is used).
InterpOK(ord, c, len) ==
    IF ord = 1 THEN c - 1 >= 0 /\ c <= len - 1
    ELSE IF ord \in {2, 3} THEN Cardinality(SliceWindow(c, len)) = 4 /\ c <= len - 1
    ELSE FALSE

\* The largest and smallest index an interpolation centred on z[c] asks for
InterpHi(ord, c) == IF ord = 1 THEN c ELSE c + 2

InterpLo(ord, c) == c - 1

\* x[:-k] for a sequence x
DropLast(x, k) ==
    IF k > 0 THEN SubSeq(x, 1, Len(x) - k)
    ELSE IF k = 0 THEN <<>>
    ELSE SubSeq(x, 1, IF -k < Len(x) THEN -k ELSE Len(x))

NoNDA ==
    [pc |-> "idle", N |-> 0, Ns |-> 1, L |-> 0, I_ord |-> 1, K1 |-> RInt(0), K2 |-> RInt(0),
     nn |-> 0, CNT_next |-> RInt(0), mu_next |-> RInt(0), underflow |-> 0,
     epsilon |-> RInt(0), vi |-> RInt(0), mm |-> 0,
     zz |-> <<>>, e_tau |-> <<>>, c1_buff |-> <<>>,
     events |-> 0, rd_lo |-> 0, rd_hi |-> 0, W |-> RInt(0),
     out_zz |-> <<>>, out_e_tau |-> <<>>]

\* NDA_symb_sync up to the loop.  A symbol (an interpolant z_interp, a
\* detector value c1, an epsilon) is written as the number of the event that
\* computed it, 1, 2, ...; 0 is the zero np.zeros put there.
NDAStart(N, Ns, L, BnTs, zeta, I_ord) ==
    /\ nda.pc = "idle"
    /\ nda' = [NoNDA EXCEPT
                 !.pc = "loop", !.N = N, !.Ns = Ns, !.L = L, !.I_ord = I_ord,
                 !.K1 = NdaK1(zeta, BnTs, Ns), !.K2 = NdaK2(zeta, BnTs, Ns),
                 !.zz = Zeros(N), !.e_tau = Zeros(N), !.c1_buff = Zeros(2 * L + 1),
                 !.vi = RInt(0), !.CNT_next = RInt(0), !.mu_next = RInt(0),
                 !.underflow = 0, !.epsilon = RInt(0), !.mm = 1, !.nn = 1]

\* The loop filter and the counter update that end the loop body, from the
\* state d the first half of the body left
NDAControl(d) ==
    LET CNT == d.CNT_next
        mu == d.mu_next
        vp == RMul(d.K1, d.epsilon)
        vi == RAdd(d.vi, RMul(d.K2, d.epsilon))
        v == RAdd(vp, vi)
        W == RAdd(RDiv(RInt(1), RInt(d.Ns)), v)
        c == RSub(CNT, W)
    IN  IF RLess(c, RInt(0))
        THEN [d EXCEPT !.vi = vi, !.W = W, !.CNT_next = RAdd(RInt(1), c), !.underflow = 1,
                       !.mu_next = IF W[1] = 0 THEN NotFinite ELSE RDiv(CNT, W),
                       !.nn = @ + 1]
        ELSE [d EXCEPT !.vi = vi, !.W = W, !.CNT_next = c, !.underflow = 0,
                       !.mu_next = mu, !.nn = @ + 1]

\* mutant of NDAEvent: the new detector output is put in front of the buffer
\* and nothing is evicted
NDAEventKeeps(d, eps) ==
    LET ev == d.events + 1
    IN  [d EXCEPT !.events = ev,
                  !.c1_buff = <<ev>> \o @,
                  !.epsilon = eps,
                  !.zz[d.mm + 1] = ev,
                  !.e_tau[d.mm + 1] = ev,
                  !.mm = @ + 1]

\* The "if underflow == 1" branch for the drawn epsilon: the interpolant, the
\* Ns detector interpolants, the smoothing buffer, the outputs.  Sequences
\* count from 1: the array element zz[mm] is element mm + 1 of the sequence.
NDAEvent(d, eps) ==
    LET ev == d.events + 1
    IN  [d EXCEPT !.events = ev,
                  !.c1_buff = <<ev>> \o DropLast(@, 1),
                  !.epsilon = eps,
                  !.zz[d.mm + 1] = ev,
                  !.e_tau[d.mm + 1] = ev,
                  !.mm = @ + 1]

\* one pass of the body of "for nn in range(1, ...)"
NDAStep(eps) ==
    /\ nda.pc = "loop"
    /\ nda.nn < NdaLoopEnd(nda.N, nda.Ns)
    /\ IF nda.underflow = 1
       THEN LET last == nda.nn + nda.Ns - 1
                seen == [nda EXCEPT !.rd_lo = InterpLo(nda.I_ord, nda.nn),
                                    !.rd_hi = InterpHi(nda.I_ord, last)]
            IN  IF /\ \A kk \in 0 .. nda.Ns - 1 : InterpOK(nda.I_ord, nda.nn + kk, nda.N + 1)
                   /\ nda.mm <= nda.N - 1
                THEN nda' = NDAControl(NDAEvent(seen, eps))
                ELSE nda' = [seen EXCEPT !.pc = "raised"]
       ELSE nda' = NDAControl(nda)

\* After the loop: zz = zz[:-(len(zz)-mm+1)], the division by np.std(zz) (which
\* keeps each entry in its place and a zero a zero), e_tau likewise
NDAReturn ==
    /\ nda.pc = "loop"
    /\ nda.nn >= NdaLoopEnd(nda.N, nda.Ns)
    /\ nda' = [nda EXCEPT !.pc = "done",
                          !.out_zz = DropLast(nda.zz, Len(nda.zz) - nda.mm + 1),
                          !.out_e_tau = DropLast(nda.e_tau, Len(nda.e_tau) - nda.mm + 1)]

-----------------------------------------------------------------------------
(* DD_carrier_sync *)

(***************************************************************************)
(* Angles, the detector output e_phi and the loop-filter values are        *)
(* written in turns, the code's radians divided by 2 pi: np.mod(x, 2 pi)   *)
(* is x mod 1 and np.angle lies in (-1/2, 1/2].  A sample or decision is a *)
(* point: for MPSK in polar form (squared magnitude, angle), which a       *)
(* rotation keeps exact, and for MQAM in Cartesian form with integer       *)
(* coordinates, after the division by z_scale.                             *)
(***************************************************************************)

\* number of input samples
MaxSym == 2

\* a float that is finite
RFin(a) == a[2] # 0

\* float arithmetic: inf and nan stay not finite
FAdd(a, b) == IF RFin(a) /\ RFin(b) THEN RAdd(a, b) ELSE NotFinite

FMul(a, b) == IF RFin(a) /\ RFin(b) THEN RMul(a, b) ELSE NotFinite

RFloor(a) == a[1] \div a[2]

\* np.rint of a rational, as an integer
RRint(a) ==
    LET q == RFloor(a)
        r == RSub(a, RInt(q))
    IN  IF RLess(r, <<1, 2>>) THEN q
        ELSE IF RLess(<<1, 2>>, r) THEN q + 1
        ELSE IF q % 2 = 0 THEN q ELSE q + 1

\* np.mod(x, 2*np.pi), in turns
ModTurn(a) == IF RFin(a) THEN RSub(a, RInt(RFloor(a))) ELSE NotFinite

\* the angle congruent to a in the range of np.angle
WrapTurn(a) ==
    LET m == ModTurn(a) IN IF RLess(<<1, 2>>, m) THEN RSub(m, RInt(1)) ELSE m

Polar(mag2, ph) == [kind |-> "polar", mag2 |-> mag2, ph |-> ph, re |-> 0, im |-> 0]

Cart(re, im) == [kind |-> "cart", mag2 |-> RInt(0), ph |-> RInt(0), re |-> re, im |-> im]

\* a complex number with a nan or inf part
NaNPoint == [kind |-> "nan", mag2 |-> RInt(0), ph |-> RInt(0), re |-> 0, im |-> 0]

\* an element of np.zeros_like(z)
ZeroPoint(mod_type) == IF mod_type = "MPSK" THEN Polar(RInt(0), RInt(0)) ELSE Cart(0, 0)

IsZeroPoint(p) ==
    \/ p.kind = "polar" /\ p.mag2[1] = 0
    \/ p.kind = "cart" /\ p.re = 0 /\ p.im = 0

\* input samples: angles on and off the axes, the origin, and for MQAM
\* points on the decision thresholds and outside every extent drawn
PskSamples ==
    {Polar(RInt(0), RInt(0))}
    \cup {Polar(RInt(1), a) : a \in {<<0, 1>>, <<1, 16>>, <<1, 12>>, <<1, 4>>, <<1, 2>>,
                                      <<-1, 4>>, <<-3, 8>>}}

QamSamples ==
    {Cart(0, 0), Cart(2, 0), Cart(0, 1), Cart(-1, 0), Cart(1, 1), Cart(-1, -3),
     Cart(5, 5), Cart(-9, 9)}

Samples(mod_type) == IF mod_type = "MPSK" THEN PskSamples ELSE QamSamples

\* mod_type, M, type, as passed
ModTypeSet == {"MPSK", "MQAM"}

MSet == {2, 3, 4, 8, 16, 64}

TypeSet == {0, 1, 2, 3}

\* BnTs and zeta drawn
DdBnTsSet == {<<1, 4>>}

DdZetaSet == {<<1, 2>>}

\* magnitudes drawn for a detector output that is not a rational number of turns
EPhiMagSet == {<<1, 16>>, <<3, 4>>}

\* z[nn]*np.exp(-1j*theta_hat).  A Cartesian sample turned by an angle other
\* than 0 is some other sample, zr.
Rotate(z, theta, zr) ==
    IF ~RFin(theta) \/ z.kind = "nan" THEN NaNPoint
    ELSE IF theta[1] = 0 THEN z
    ELSE IF z.kind = "polar"
         THEN (IF z.mag2[1] = 0 THEN z ELSE Polar(z.mag2, WrapTurn(RSub(z.ph, theta))))
         ELSE zr

\* np.sign of the real and of the imaginary part of a polar point
SignRe(p) ==
    IF p.mag2[1] = 0 THEN 0
    ELSE IF RLess(<<-1, 4>>, p.ph) /\ RLess(p.ph, <<1, 4>>) THEN 1
    ELSE IF p.ph = <<-1, 4>> \/ p.ph = <<1, 4>> THEN 0
    ELSE -1

SignIm(p) ==
    IF p.mag2[1] = 0 \/ p.ph[1] = 0 \/ p.ph = <<1, 2>> THEN 0
    ELSE IF RLess(RInt(0), p.ph) THEN 1 ELSE -1

\* np.angle(sr + 1j*si) for sr, si in {-1, 0, 1}
SignAngle(sr, si) ==
    IF si = 0 THEN (IF sr < 0 THEN <<1, 2>> ELSE <<0, 1>>)
    ELSE IF sr = 0 THEN <<si, 4>>
    ELSE IF sr > 0 THEN <<si, 8>> ELSE <<3 * si, 8>>

\* np.sqrt(M) - 1 for the orders MQAM accepts; 1 for M = 2
QamXm(M) == IF M = 2 \/ M = 4 THEN 1 ELSE IF M = 16 THEN 3 ELSE IF M = 64 THEN 7 ELSE 15

Clip(x, lo, hi) == IF x < lo THEN lo ELSE IF x > hi THEN hi ELSE x

\* The decision branch of the loop body: the new a_hat[nn] (old is the zero
\* np.zeros_like left there) and whether a message was printed
Decide(mod_type, M, zp, old) ==
    IF mod_type = "MPSK" THEN
        IF M = 2 THEN
            [a |-> IF zp.kind = "nan" THEN NaNPoint
                   ELSE LET sr == SignRe(zp) IN Polar(RInt(sr * sr), SignAngle(sr, 0)),
             printed |-> FALSE]
        ELSE IF M = 4 THEN
            [a |-> IF zp.kind = "nan" THEN NaNPoint
                   ELSE LET sr == SignRe(zp)
                            si == SignIm(zp)
                        IN  Polar(<<sr * sr + si * si, 2>>, SignAngle(sr, si)),
             printed |-> FALSE]
        ELSE IF M > 4 THEN
            [a |-> IF zp.kind = "nan" THEN NaNPoint
                   ELSE LET k == RRint(RMul(zp.ph, RInt(M))) % M
                        IN  Polar(RInt(1), WrapTurn(RNorm(k, M))),
             printed |-> FALSE]
        ELSE [a |-> old, printed |-> TRUE]
    ELSE
        IF M \in {2, 4, 16, 64, 256} THEN
            [a |-> IF zp.kind = "nan" THEN NaNPoint
                   ELSE LET x_m == QamXm(M)
                            a_hat_shiftI == Clip(RRint(<<zp.re + x_m, 2>>), 0, x_m)
                            a_hat_shiftQ == Clip(RRint(<<zp.im + x_m, 2>>), 0, x_m)
                        IN  Cart(2 * a_hat_shiftI - x_m, 2 * a_hat_shiftQ - x_m),
             printed |-> FALSE]
        ELSE [a |-> old, printed |-> TRUE]

Sgn(i) == IF i > 0 THEN 1 ELSE IF i < 0 THEN -1 ELSE 0

\* the sign of zp.imag*a.real - zp.real*a.imag
CrossSign(zp, a) ==
    IF IsZeroPoint(zp) \/ IsZeroPoint(a) THEN 0
    ELSE IF zp.kind = "polar"
         THEN LET d == WrapTurn(RSub(zp.ph, a.ph))
              IN  IF d[1] = 0 \/ d = <<1, 2>> THEN 0 ELSE Sgn(d[1])
         ELSE Sgn(zp.im * a.re - zp.re * a.im)

\* np.angle(np.exp(1j*(np.angle(zp) - np.angle(a)))); np.angle(0) is 0.  For
\* Cartesian points the sign is that of the cross product and the size is drawn.
AngleDiff(zp, a, mag) ==
    IF zp.kind = "polar" THEN WrapTurn(RSub(zp.ph, a.ph))
    ELSE LET p == IF IsZeroPoint(zp) THEN Cart(1, 0) ELSE zp
             q == IF IsZeroPoint(a) THEN Cart(1, 0) ELSE a
             c == CrossSign(p, q)
         IN  IF c # 0 THEN RMul(<<c, 2>>, mag)
             ELSE IF p.re * q.re + p.im * q.im < 0 THEN <<1, 2>> ELSE <<0, 1>>

\* The detector branch: the new e_phi[nn] (old is the zero np.zeros left
\* there) and whether a message was printed.  A complex quotient by zero is
\* nan or inf with a warning.  Where the value is not a rational number of
\* turns, its sign is computed and its size mag is drawn.
EPhi(type, zp, a, mag, old) ==
    IF type \notin {0, 1, 2} THEN [e |-> old, printed |-> TRUE]
    ELSE IF zp.kind = "nan" \/ a.kind = "nan" THEN [e |-> NotFinite, printed |-> FALSE]
    ELSE IF type = 0 THEN [e |-> RMul(RInt(CrossSign(zp, a)), mag), printed |-> FALSE]
    ELSE IF type = 1 THEN [e |-> AngleDiff(zp, a, mag), printed |-> FALSE]
    ELSE IF IsZeroPoint(a) THEN [e |-> NotFinite, printed |-> FALSE]
    ELSE [e |-> RMul(RInt(CrossSign(zp, a)), mag), printed |-> FALSE]

\* Ns = 1, Kp = 1, K0 = 1
\* K1 = 4*zeta/(zeta + 1/(4*zeta))*BnTs/Ns/Kp/K0
\* K2 = 4/(zeta + 1/(4*zeta))**2*(BnTs/Ns)**2/Kp/K0
DdK1(zeta, BnTs) == RMul(RDiv(RMul(RInt(4), zeta), NdaA(zeta)), BnTs)

DdK2(zeta, BnTs) == RMul(RDiv(RInt(4), RMul(NdaA(zeta), NdaA(zeta))), RMul(BnTs, BnTs))

NoDD ==
    [pc |-> "idle", mod_type |-> "MPSK", M |-> 0, type |-> 0, open_loop |-> FALSE,
     K1 |-> RInt(0), K2 |-> RInt(0), N |-> 0, nn |-> 0, vi |-> RInt(0),
     theta_hat |-> RInt(0), z |-> <<>>, rot |-> <<>>, z_prime |-> <<>>, a_hat |-> <<>>,
     e_phi |-> <<>>, theta_h |-> <<>>, printed |-> FALSE]

\* DD_carrier_sync up to the loop, for an input of N samples.  z collects the
\* samples as the loop reads them and rot the estimate each was turned by.
DDStart(mod_type, M, type, open_loop, BnTs, zeta, N) ==
    /\ dd.pc = "idle"
    /\ dd' = [NoDD EXCEPT
                !.pc = "loop", !.mod_type = mod_type, !.M = M, !.type = type,
                !.open_loop = open_loop, !.N = N, !.nn = 0,
                !.K1 = DdK1(zeta, BnTs), !.K2 = DdK2(zeta, BnTs),
                !.z_prime = [i \in 1 .. N |-> ZeroPoint(mod_type)],
                !.a_hat = [i \in 1 .. N |-> ZeroPoint(mod_type)],
                !.e_phi = [i \in 1 .. N |-> RInt(0)],
                !.theta_h = [i \in 1 .. N |-> RInt(0)],
                !.theta_hat = RInt(0), !.vi = RInt(0)]

\* the loop filter and phase update that end the loop body
DDLoopFilter(d, e) ==
    LET vp == FMul(d.K1, e)
        vi == FAdd(d.vi, FMul(d.K2, e))
        v == FAdd(vp, vi)
        th == ModTurn(FAdd(d.theta_hat, v))
    IN  [d EXCEPT !.vi = vi, !.theta_h[d.nn + 1] = th,
                  !.theta_hat = IF d.open_loop THEN RInt(0) ELSE th,
                  !.nn = @ + 1]

\* one pass of the body of "for nn in range(len(z))" on the sample z
DDStep(z, zr, mag) ==
    /\ dd.pc = "loop"
    /\ dd.nn < dd.N
    /\ LET i == dd.nn + 1
           zp == Rotate(z, dd.theta_hat, zr)
           dec == Decide(dd.mod_type, dd.M, zp, dd.a_hat[i])
           det == EPhi(dd.type, zp, dec.a, mag, dd.e_phi[i])
       IN  dd' = DDLoopFilter(
                    [dd EXCEPT !.z = Append(@, z), !.rot = Append(@, dd.theta_hat),
                               !.z_prime[i] = zp, !.a_hat[i] = dec.a, !.e_phi[i] = det.e,
                               !.printed = @ \/ dec.printed \/ det.printed],
                    det.e)

\* After the loop the four arrays are returned (for MQAM z_prime is scaled
\* back by z_scale first)
DDReturn ==
    /\ dd.pc = "loop"
    /\ dd.nn >= dd.N
    /\ dd' = [dd EXCEPT !.pc = "done"]

-----------------------------------------------------------------------------
(* PLL1 and PLL_cbb *)

(***************************************************************************)
(* The loop constants enter the code as 2*pi*fn and 2*pi*Kv.  The runs     *)
(* drawn have these two products rational (wn and Kv below), which makes   *)
(* every value of the linear loop rational.  The output of a phase         *)
(* detector that is not linear (np.sin in PLL1, the imaginary part of      *)
(* x[k] times the conjugate of the complex VCO output in PLL_cbb) is       *)
(* drawn.                                                                  *)
(***************************************************************************)

\* number of input samples
MaxPll == 2

\* loop_type (4 stands for a value that is none of 1, 2, 3), non_lin, fs,
\* 2*pi*fn, zeta, 2*pi*Kv, the input phases and the detector outputs drawn
LoopTypeSet == {1, 2, 3, 4}

NonLinSet == {0, 1}

PllFsSet == {1, 2}

PllWn == RInt(1)

PllZeta == <<1, 2>>

PllKv == RInt(2)

ThetaSet == {<<0, 1>>, <<1, 1>>, <<-1, 2>>}

PdSet == {<<0, 1>>, <<1, 2>>, <<-1, 1>>}

\* The constants the "if loop_type" chain assigns: K, tau1, tau2 and whether
\* K was assigned at all.  tau1 is K/((2*np.pi*fn)**2) in PLL1.
PllParms(loop_type) ==
    IF loop_type = 1 THEN
        [bound |-> TRUE, K |-> PllWn, tau1 |-> RInt(0), tau2 |-> RInt(0)]
    ELSE IF loop_type = 2 THEN
        [bound |-> TRUE, K |-> RMul(RMul(RInt(2), PllZeta), PllWn), tau1 |-> RInt(0),
         tau2 |-> RDiv(RMul(RInt(2), PllZeta), PllWn)]
    ELSE IF loop_type = 3 THEN
        [bound |-> TRUE, K |-> PllKv, tau1 |-> RDiv(PllKv, RMul(PllWn, PllWn)),
         tau2 |-> RMul(RDiv(RMul(RInt(2), PllZeta), PllWn),
                       RSub(RInt(1), RDiv(RDiv(PllWn, PllKv), RMul(RInt(2), PllZeta))))]
    ELSE [bound |-> FALSE, K |-> RInt(0), tau1 |-> RInt(0), tau2 |-> RInt(0)]

NoPLL ==
    [pc |-> "idle", fn |-> "PLL1", loop_type |-> 0, non_lin |-> 0, N |-> 0, k |-> 0,
     T |-> RInt(0), parms |-> PllParms(0), warned |-> FALSE, err |-> "",
     filt_in_last |-> RInt(0), filt_out_last |-> RInt(0), vco_in_last |-> RInt(0),
     vco_out |-> RInt(0), vco_out_last |-> RInt(0), cbb_zero |-> TRUE,
     theta_hat |-> <<>>, ev |-> <<>>, phi |-> <<>>]

\* PLL1 or PLL_cbb up to the loop, for an input of N samples.  In PLL_cbb
\* the loop_type 3 branch forms (2*np.pi*fn)^2, the exclusive or of a float
\* and an int, which raises TypeError.  A loop_type outside 1, 2, 3 gets a
\* warning and leaves K unassigned.
PLLStart(fn, loop_type, non_lin, fs, N) ==
    /\ pll.pc = "idle"
    /\ IF fn = "PLL_cbb" /\ loop_type = 3
       THEN pll' = [NoPLL EXCEPT !.pc = "raised", !.err = "TypeError", !.fn = fn,
                                 !.loop_type = loop_type, !.non_lin = non_lin, !.N = N,
                                 !.T = RDiv(RInt(1), RInt(fs))]
       ELSE pll' = [NoPLL EXCEPT
                      !.pc = "loop", !.fn = fn, !.loop_type = loop_type, !.non_lin = non_lin,
                      !.N = N, !.T = RDiv(RInt(1), RInt(fs)), !.parms = PllParms(loop_type),
                      !.warned = loop_type \notin {1, 2, 3},
                      !.theta_hat = [i \in 1 .. N |-> RInt(0)],
                      !.ev = [i \in 1 .. N |-> RInt(0)],
                      !.phi = [i \in 1 .. N |-> RInt(0)]]

\* phi[k]: theta[k] - vco_out in PLL1; in PLL_cbb 0 while vco_out_cbb is the
\* 0 it starts as, and after that a value set by x[k], drawn as pd
PllPhi(l, th, pd) ==
    IF l.fn = "PLL1" THEN RSub(th, l.vco_out)
    ELSE IF l.cbb_zero THEN RInt(0) ELSE pd

\* pd_out: np.sin(phi[k]) when non_lin == 1 in PLL1 (0 at 0, else drawn as pd)
PllPdOut(l, ph, pd) ==
    IF l.fn = "PLL1" /\ l.non_lin = 1 THEN (IF ph[1] = 0 THEN RInt(0) ELSE pd)
    ELSE ph

\* the loop filter and VCO integrator of one sample, from gain_out
PllFilterVco(l, gain_out) ==
    LET c == l.parms
        half == RDiv(l.T, RInt(2))
        filt_in == IF l.loop_type = 2 THEN RMul(RDiv(RInt(1), c.tau2), gain_out)
                   ELSE IF l.loop_type = 3
                        THEN RSub(RMul(RDiv(c.tau2, c.tau1), gain_out),
                                  RMul(RDiv(RInt(1), c.tau1), l.filt_out_last))
                        ELSE l.filt_in_last
        u3 == IF l.loop_type = 3
              THEN RAdd(filt_in, RMul(RDiv(RInt(1), c.tau2), l.filt_out_last))
              ELSE RInt(0)
        integ == RAdd(l.filt_out_last, RMul(half, RAdd(filt_in, l.filt_in_last)))
        filt_out_last == IF l.loop_type \in {2, 3} THEN integ ELSE l.filt_out_last
        filt_out == IF l.loop_type = 2 THEN RAdd(integ, gain_out)
                    ELSE IF l.loop_type = 3 THEN integ ELSE gain_out
        vco_in == IF l.loop_type = 3 THEN u3 ELSE filt_out
        acc == RAdd(l.vco_out_last, RMul(half, RAdd(vco_in, l.vco_in_last)))
        vco_out == RMul(PllKv, acc)
    IN  [l EXCEPT !.filt_in_last = filt_in, !.filt_out_last = filt_out_last,
                  !.vco_in_last = vco_in, !.vco_out_last = acc, !.vco_out = vco_out,
                  !.cbb_zero = FALSE,
                  !.ev[l.k + 1] = vco_in, !.theta_hat[l.k + 1] = vco_out,
                  !.k = @ + 1]

\* One pass of the body of "for k in range(len(n))".  With K unassigned,
\* gain_out = K/Kv*pd_out raises NameError after phi[k] has been stored.
PLLStep(th, pd) ==
    /\ pll.pc = "loop"
    /\ pll.k < pll.N
    /\ LET ph == PllPhi(pll, th, pd)
           seen == [pll EXCEPT !.phi[pll.k + 1] = ph]
       IN  IF ~pll.parms.bound
           THEN pll' = [seen EXCEPT !.pc = "raised", !.err = "NameError"]
           ELSE pll' = PllFilterVco(seen,
                           RMul(RDiv(pll.parms.K, PllKv), PllPdOut(pll, ph, pd)))

\* return theta_hat, ev, phi
PLLReturn ==
    /\ pll.pc = "loop"
    /\ pll.k >= pll.N
    /\ pll' = [pll EXCEPT !.pc = "done"]


-----------------------------------------------------------------------------
(* Specifications.  Each drives one component; the others stay idle. *)

IdleNCO == nco_pc = "none" /\ nco = NoNCO /\ hist = NoHist

IdleLF == lf = NoLF

IdleLoop == lp = NoLoop

IdleNDA == nda = NoNDA

IdleDD == dd = NoDD

IdlePLL == pll = NoPLL

InitLF == IdleNCO /\ IdleLF /\ IdleLoop /\ IdleNDA /\ IdleDD /\ IdlePLL

NextLF ==
    \/ \E a1 \in GainSet, a2 \in GainSet, s \in AccStateSet :
         LFInit(a1, a2, s) /\ UNCHANGED <<nco_pc, nco, hist, lp, nda, dd, pll>>
    \/ \E x \in SampleSet :
         LFFilter(x) /\ UNCHANGED <<nco_pc, nco, hist, lp, nda, dd, pll>>

SpecLF == InitLF /\ [][NextLF]_vars

InitLoop == IdleNCO /\ IdleLF /\ IdleLoop /\ IdleNDA /\ IdleDD /\ IdlePLL

NextLoop ==
    \/ \E kind \in {"pll", "afc"}, N \in 1 .. MaxSamples, f_clk \in FsSet, open \in BOOLEAN,
          k_d \in KdSet, g \in LoopGainSet :
         \E fc \in FreqSet(f_clk) :
            LoopStart(kind, N, fc, f_clk, open, k_d, g) /\ UNCHANGED <<nco_pc, nco, hist, lf, nda, dd, pll>>
    \/ \E yd \in DetSet :
         LoopStep(yd) /\ UNCHANGED <<nco_pc, nco, hist, lf, nda, dd, pll>>
    \/ LoopReturn /\ UNCHANGED <<nco_pc, nco, hist, lf, nda, dd, pll>>

SpecLoop == InitLoop /\ [][NextLoop]_vars

InitNDA == IdleNCO /\ IdleLF /\ IdleLoop /\ IdleNDA /\ IdleDD /\ IdlePLL

NextNDA ==
    \/ \E N \in 0 .. MaxLen, Ns \in NsSet, L \in LSet, BnTs \in BnTsSet, zeta \in ZetaSet,
          I_ord \in IOrdSet :
         NDAStart(N, Ns, L, BnTs, zeta, I_ord) /\ UNCHANGED <<nco_pc, nco, hist, lf, lp, dd, pll>>
    \/ \E eps \in EpsSet(nda.Ns) :
         NDAStep(eps) /\ UNCHANGED <<nco_pc, nco, hist, lf, lp, dd, pll>>
    \/ NDAReturn /\ UNCHANGED <<nco_pc, nco, hist, lf, lp, dd, pll>>

SpecNDA == InitNDA /\ [][NextNDA]_vars

InitDD == IdleNCO /\ IdleLF /\ IdleLoop /\ IdleNDA /\ IdleDD /\ IdlePLL

NextDD ==
    \/ \E mod_type \in ModTypeSet, M \in MSet, type \in TypeSet, open_loop \in BOOLEAN,
          BnTs \in DdBnTsSet, zeta \in DdZetaSet, N \in 0 .. MaxSym :
         DDStart(mod_type, M, type, open_loop, BnTs, zeta, N)
            /\ UNCHANGED <<nco_pc, nco, hist, lf, lp, nda, pll>>
    \/ \E z \in Samples(dd.mod_type), zr \in QamSamples, mag \in EPhiMagSet :
         DDStep(z, zr, mag) /\ UNCHANGED <<nco_pc, nco, hist, lf, lp, nda, pll>>
    \/ DDReturn /\ UNCHANGED <<nco_pc, nco, hist, lf, lp, nda, pll>>

SpecDD == InitDD /\ [][NextDD]_vars

InitPLL == IdleNCO /\ IdleLF /\ IdleLoop /\ IdleNDA /\ IdleDD /\ IdlePLL

NextPLL ==
    \/ \E fn \in {"PLL1", "PLL_cbb"}, loop_type \in LoopTypeSet, non_lin \in NonLinSet,
          fs \in PllFsSet, N \in 0 .. MaxPll :
         PLLStart(fn, loop_type, non_lin, fs, N)
            /\ UNCHANGED <<nco_pc, nco, hist, lf, lp, nda, dd>>
    \/ \E th \in ThetaSet, pd \in PdSet :
         PLLStep(th, pd) /\ UNCHANGED <<nco_pc, nco, hist, lf, lp, nda, dd>>
    \/ PLLReturn /\ UNCHANGED <<nco_pc, nco, hist, lf, lp, nda, dd>>

SpecPLL == InitPLL /\ [][NextPLL]_vars

-----------------------------------------------------------------------------
InitNCO == IdleNCO /\ IdleLF /\ IdleLoop /\ IdleNDA /\ IdleDD /\ IdlePLL

NextNCO ==
    \/ \E nb \in NBitsSet, fsx \in FsSet, kcx \in KcSet :
         \E f \in FreqSet(fsx), s \in StateInitSet(nb) :
            NCOInit(f, fsx, kcx, s, nb) /\ UNCHANGED <<lf, lp, nda, dd, pll>>
    \/ \E e \in ErrSet :
         NCOUpdate(e) /\ UNCHANGED <<lf, lp, nda, dd, pll>>
    \/ \E f \in FreqSet(nco.fs) :
         NCOSetFcenter(f) /\ UNCHANGED <<lf, lp, nda, dd, pll>>

SpecNCO == InitNCO /\ [][NextNCO]_vars

-----------------------------------------------------------------------------
(* Claims about the NCO *)

IsUpdateStep == hist'.calls = hist.calls + 1 /\ hist'.last = "update"

IsSetFcenterStep == hist'.calls = hist.calls + 1 /\ hist'.last = "set_fcenter"

\* the integers nearest to a / c: both neighbours when a / c lies half way
NearestInts(a, c) ==
    LET q == WFloorDiv(a, c)
        r == WRem(a, c)
    IN  IF 2 * r < c THEN {q}
        ELSE IF 2 * r > c THEN {WAdd(q, WInt(1))}
        ELSE {q, WAdd(q, WInt(1))}

\* (k_hat + delta_k + round(kc * 2^n_bits * e)) mod 2^n_bits
ClaimedKHat(o, e) ==
    {WModPow2(WAdd(WAdd(o.k_hat, o.delta_k), r), o.n_bits) :
        r \in NearestInts(WScalePow2(o.kc * e[1], o.n_bits), e[2])}

\* C1: for n_bits in {8, 16, 32} and every error input e, update(e) sets
\* k_hat to (k_hat + delta_k + round(kc * 2^n_bits * e)) mod 2^n_bits, a value
\* in [0, 2^n_bits), and k_old to the value k_hat had before the call.
C1_UpdateWraps ==
    [][(IsUpdateStep /\ nco.n_bits \in {8, 16, 32})
          => /\ nco'.k_old = nco.k_hat
             /\ nco'.k_hat \in ClaimedKHat(nco, hist'.e)
             /\ WLess(nco'.k_hat, MaxBitsConst(nco.n_bits))]_vars

\* C2: for a width n the constructor accepts that is none of 8, 16, 32, 64
\* and an initial state below 2^n, after N updates with zero error k_hat is
\* (initial + N * delta_k) mod 2^n, and k_hat / 2^n is in [0, 1).  (For the
\* native widths the wrap is the cast of C1.)
C2_ZeroErrorPhase ==
    (/\ nco_pc = "ok"
     /\ nco.n_bits \notin {8, 16, 32, 64}
     /\ hist.zero /\ ~hist.retuned
     /\ WLess(hist.init, MaxBitsConst(nco.n_bits)))
        => /\ nco.k_hat = WModPow2(WAdd(hist.init, WMulSmall(hist.n, nco.delta_k)), nco.n_bits)
           /\ WLess(nco.k_hat, MaxBitsConst(nco.n_bits))

\* the threshold the claim has pos_edge use: the caller's whenever one is
\* passed, half scale otherwise
ClaimedThresh(o, thresh) == IF thresh = None THEN MaxBitsConst(o.n_bits - 1) ELSE thresh

\* C3 (first clause): pos_edge(thresh) is true exactly when k_old - k_hat
\* exceeds thresh, with the caller's thresh whenever one is passed, 0
\* included, and half scale only when none is passed.
C3_PosEdgeThresh ==
    nco_pc = "ok" =>
        \A t \in ThreshSet :
            PosEdge(nco, t) <=> WLess(ClaimedThresh(nco, t), WSub(nco.k_old, nco.k_hat))

\* |fcenter_hat - f| <= fs / 2^n_bits, for fcenter_hat = num / (den * 2^exp)
FreqErrWithin(o, f) ==
    LET h == o.fcenter_hat
    IN  IF h.exp = 0
        THEN WLeq(WScalePow2(WAbs(WSub(WMulSmall(f[2], h.num), WInt(f[1] * h.den)))[2], o.n_bits),
                  WInt(o.fs * h.den * f[2]))
        ELSE WLeq(WAbs(WSub(WMulSmall(f[2], h.num), WScalePow2(f[1], o.n_bits))),
                  WInt(o.fs * f[2]))

\* C4: for the widths 8, 16, 32 and every f with 0 <= f < fs, after
\* constructing with f and after set_fcenter(f) the stored fcenter_hat is
\* within fs / 2^n_bits of f.
C4_FreqQuantization ==
    (nco_pc = "ok" /\ nco.n_bits \in {8, 16, 32}) => FreqErrWithin(nco, hist.f)

\* C5: set_fcenter changes only delta_k and fcenter_hat; k_hat, k_old, kc, fs
\* and the width are as before, and the update that follows starts from the
\* k_hat the retune left.
C5_SetFcenterFrame ==
    [][/\ IsSetFcenterStep
          => /\ nco'.k_hat = nco.k_hat
             /\ nco'.k_old = nco.k_old
             /\ nco'.kc = nco.kc
             /\ nco'.fs = nco.fs
             /\ nco'.n_bits = nco.n_bits
             /\ nco'.dtype = nco.dtype
       /\ IsUpdateStep => nco'.k_old = nco.k_hat]_vars

\* a retune made after the accumulator has moved off its initial value
C5_Witness ==
    hist.last = "set_fcenter" /\ hist.n >= 1 /\ nco.k_hat # hist.init /\ nco.k_hat # WZero

\* C6: a construction with n_bits > 64 raises: no oscillator exists, of any
\* width, and no update has run.
C6_WideWidthRaises ==
    (nco_pc # "none" /\ hist.req_bits > 64)
        => (nco_pc = "raised" /\ nco = NoNCO /\ hist.calls = 0)

\* the constructor was called with n_bits = 65 and raised
C6_Witness == nco_pc = "raised" /\ hist.req_bits = 65

\* f * 2^n_bits, rounded, fits the NCO's unsigned type, so that neither
\* derivation of the frequency word casts a value out of range
WordFits(o, f) ==
    InDtype(o.dtype, Rint(WScalePow2(f[1], o.n_bits), f[2]))

\* C18: set_fcenter(f) called right after the construction with the center
\* frequency f (one whose word fits the type) leaves delta_k as the
\* constructor set it.
C18_RetuneSameWord ==
    [][(IsSetFcenterStep /\ hist.last = "init" /\ hist'.f = hist.f /\ WordFits(nco, hist.f))
           => nco'.delta_k = nco.delta_k]_vars

-----------------------------------------------------------------------------
(* Claims about the loop filter and the loops *)

RECURSIVE SumSeq(_)
SumSeq(q) == IF q = <<>> THEN 0 ELSE q[1] + SumSeq(Tail(q))

\* C7: for a LoopFilter2 with gains alpha1, alpha2 and initial state s0, the
\* n-th call filter(xn) returns alpha1 * xn + alpha2 * (s0 + x1 + ... + xn),
\* and the accumulator holds s0 plus each input once.
C7_LoopFilter2Output ==
    lf.made =>
        /\ AccumOut(lf.f.accum) = lf.s0 + SumSeq(lf.xs)
        /\ Len(lf.xs) >= 1 =>
               lf.y = lf.f.alpha1 * lf.xs[Len(lf.xs)] + lf.f.alpha2 * (lf.s0 + SumSeq(lf.xs))

\* the two-sample case from state 0: the second output after inputs x1 # x2
C7_Witness ==
    /\ lf.made /\ lf.s0 = 0 /\ Len(lf.xs) = 2 /\ lf.xs[1] # lf.xs[2]
    /\ lf.y = lf.f.alpha1 * lf.xs[2] + lf.f.alpha2 * (lf.xs[1] + lf.xs[2])

\* the value the claim has the NCO update receive at sample i (1-based), as num/den
ClaimedLoopErr(l, i) ==
    IF l.open \/ i = 1 THEN <<0, 1>>
    ELSE IF l.kind = "pll" THEN <<l.y_lf[i - 1], LoopDen>>
    ELSE <<l.y_lf[i - 1], LoopDen * l.f_clk>>

RatEq(a, b) == a[1] * b[2] = b[1] * a[2]

\* C8: in cbb_pll and cbb_afc the NCO is advanced first at each sample, with
\* the loop-filter output recorded at the sample before (zero at the first;
\* divided by the clock rate in cbb_afc), and its output is read after that
\* update; in open-loop mode every update receives zero and the accumulator
\* read at sample k (from 0) is (k + 1) * delta_k mod 2^32.
C8_LoopCausal ==
    lp.pc # "idle" =>
        /\ \A i \in 1 .. Len(lp.e_in) : RatEq(lp.e_in[i], ClaimedLoopErr(lp, i))
        /\ lp.k >= 1 => lp.phase[lp.k] = lp.nco.k_hat
        /\ lp.open =>
               \A i \in 1 .. Len(lp.phase) :
                   lp.phase[i] = WModPow2(WMulSmall(i, lp.nco.delta_k), 32)

-----------------------------------------------------------------------------
(* Claims about NDA_symb_sync *)

\* C9: the returned symbols and the returned e_tau entries are those of the
\* processed underflow events, one each, in event order: entry i is the one
\* computed at the i-th event, none is missing, no zero that no event wrote
\* is included.
C9_OneSymbolPerEvent ==
    nda.pc = "done" =>
        /\ nda.out_zz = [i \in 1 .. nda.events |-> i]
        /\ nda.out_e_tau = [i \in 1 .. nda.events |-> i]

\* C10: for an interpolator order in {1, 2, 3}, every index an event reads,
\* for the symbol interpolant and the Ns detector interpolants, lies in the
\* padded input, indices 0 .. N, and no event fails for want of samples.
C10_ReadsInsidePaddedInput ==
    (nda.pc # "idle" /\ nda.I_ord \in {1, 2, 3}) =>
        /\ 0 <= nda.rd_lo
        /\ nda.rd_hi <= nda.N
        /\ nda.pc # "raised"

\* a real in [0, 1)
InUnit(a) == RFin(a) /\ ~RLess(a, RInt(0)) /\ RLess(a, RInt(1))

\* C16: at every sample the modulo-1 counter and the fractional offset
\* handed to the next pass are in [0, 1).
C16_CounterInUnitInterval ==
    nda.pc # "idle" => (InUnit(nda.CNT_next) /\ InUnit(nda.mu_next))

\* C17: the smoothing buffer has 2L+1 entries at every step; after k events
\* it holds the detector outputs of the last min(k, 2L+1) events, newest
\* first, followed by the zeros it started with.
C17_SmoothingBuffer ==
    nda.pc # "idle" =>
        /\ Len(nda.c1_buff) = 2 * nda.L + 1
        /\ \A i \in 1 .. 2 * nda.L + 1 :
               nda.c1_buff[i] = IF i <= nda.events THEN nda.events - i + 1 ELSE 0

\* a buffer of three that has evicted its first entry
C17_Witness == nda.L = 1 /\ nda.events = 4 /\ nda.c1_buff = <<4, 3, 2>>

-----------------------------------------------------------------------------
(* Claims about DD_carrier_sync *)

\* the configurations C11 names
DDSupported(mod_type, M) ==
    \/ mod_type = "MPSK" /\ (M = 2 \/ M >= 4)
    \/ mod_type = "MQAM" /\ M \in {4, 16, 64, 256}

\* the constellation: M points on the unit circle (for M = 4 on the
\* diagonals), or the square grid of odd coordinates up to sqrt(M) - 1
Constellation(mod_type, M) ==
    IF mod_type = "MPSK"
    THEN IF M = 4 THEN {Polar(RInt(1), <<k, 8>>) : k \in {-3, -1, 1, 3}}
         ELSE {Polar(RInt(1), WrapTurn(RNorm(k, M))) : k \in 0 .. M - 1}
    ELSE LET side == CHOOSE n \in 1 .. 16 : n * n = M
         IN  {Cart(2 * i - (side - 1), 2 * q - (side - 1)) : i, q \in 0 .. side - 1}

RAbs(a) == IF a[1] < 0 THEN <<-a[1], a[2]>> ELSE a

\* constellation point p is strictly closer to the sample zp than point a
StrictlyCloser(p, a, zp) ==
    IF zp.kind = "polar"
    THEN /\ zp.mag2[1] # 0
         /\ RLess(RAbs(WrapTurn(RSub(zp.ph, p.ph))), RAbs(WrapTurn(RSub(zp.ph, a.ph))))
    ELSE (zp.re - p.re) * (zp.re - p.re) + (zp.im - p.im) * (zp.im - p.im)
             < (zp.re - a.re) * (zp.re - a.re) + (zp.im - a.im) * (zp.im - a.im)

\* C11: for a supported configuration the decision recorded for each
\* rotated sample is a point of the constellation, and no point of the
\* constellation is strictly closer to the rotated sample.
C11_HardDecisionNearest ==
    (dd.pc # "idle" /\ DDSupported(dd.mod_type, dd.M)) =>
        \A i \in 1 .. dd.nn :
            dd.z_prime[i].kind # "nan" =>
                /\ dd.a_hat[i] \in Constellation(dd.mod_type, dd.M)
                /\ \A p \in Constellation(dd.mod_type, dd.M) :
                       ~StrictlyCloser(p, dd.a_hat[i], dd.z_prime[i])

\* a phase estimate in [0, 2 pi)
InTurn(th) == RFin(th) /\ ~RLess(th, RInt(0)) /\ RLess(th, RInt(1))

\* C12: in a supported configuration with a detector type in {0, 1, 2}, the
\* estimate a sample is turned by is 0 at the first sample and in [0, 2 pi)
\* at every sample, being the recorded theta_h of the sample before; with
\* open_loop every sample is turned by 0 and comes out as it went in, while
\* theta_h is still the loop filter's output reduced modulo 2 pi.
C12_PhaseEstimate ==
    (dd.pc # "idle" /\ DDSupported(dd.mod_type, dd.M) /\ dd.type \in {0, 1, 2}) =>
        /\ \A i \in 1 .. dd.nn :
              /\ InTurn(dd.rot[i])
              /\ InTurn(dd.theta_h[i])
              /\ i = 1 => dd.rot[i] = RInt(0)
              /\ (i > 1 /\ ~dd.open_loop) => dd.rot[i] = dd.theta_h[i - 1]
        /\ dd.open_loop =>
              \A i \in 1 .. dd.nn : dd.rot[i] = RInt(0) /\ dd.z_prime[i] = dd.z[i]

\* C13: a call on a non-empty input with a modulation order the family does
\* not support, or with a detector type outside {0, 1, 2}, does not return.
\* (MQAM with M = 2, which the code decides as it does M = 4, is left aside.)
C13_ConfigRejected ==
    (dd.pc = "done" /\ dd.N >= 1) =>
        /\ DDSupported(dd.mod_type, dd.M) \/ (dd.mod_type = "MQAM" /\ dd.M = 2)
        /\ dd.type \in {0, 1, 2}

-----------------------------------------------------------------------------
(* Claims about configuration errors and the analog loops *)

\* C14: a call of NDA_symb_sync with an interpolator order outside
\* {1, 2, 3}, or of PLL1 or PLL_cbb with a loop topology outside {1, 2, 3},
\* never returns, and fails before it has taken up a sample: no pass of the
\* loop body has run.
C14_BadOrderRejected ==
    /\ (nda.pc # "idle" /\ nda.I_ord \notin {1, 2, 3}) =>
           (nda.pc # "done" /\ nda.nn <= 1)
    /\ (pll.pc # "idle" /\ pll.loop_type \notin {1, 2, 3}) =>
           (pll.pc # "done" /\ pll.k = 0 /\ pll.phi = [i \in 1 .. pll.N |-> RInt(0)])

\* C15: with a loop topology in {1, 2, 3}, PLL1 and PLL_cbb raise nothing
\* and return three sequences as long as the input.
C15_AnalogLoopsComplete ==
    (pll.pc # "idle" /\ pll.loop_type \in {1, 2, 3}) =>
        /\ pll.pc # "raised"
        /\ pll.pc = "done" =>
               /\ pll.k = pll.N
               /\ Len(pll.theta_hat) = pll.N
               /\ Len(pll.ev) = pll.N
               /\ Len(pll.phi) = pll.N

-----------------------------------------------------------------------------
=============================================================================
